---- MODULE Spec2Model ----
(***************************************************************************)
(* Kruskal's minimum spanning tree over a disjoint-set forest, as          *)
(* implemented in src/script.js (class DisjointSet, function kruskalMST).  *)
(*                                                                         *)
(* Three specifications share the same variables and the same DisjointSet  *)
(* operators:                                                              *)
(*   Spec     kruskalMST(V, allEdges) on edge lists with valid endpoints   *)
(*   SpecOOB  kruskalMST(V, allEdges) where endpoints may be V (one past   *)
(*            the last valid index)                                        *)
(*   SpecDSU  a DisjointSet(n) driven by arbitrary find / union calls      *)
(***************************************************************************)
EXTENDS Integers, Sequences, FiniteSets

VARIABLES
    V,          \* vertex count (the n of the DisjointSet)
    allEdges,   \* the caller's edge array, as kruskalMST sees and leaves it
    input,      \* history: allEdges as it was when kruskalMST was called
    parent,     \* DisjointSet.parent
    rank,       \* DisjointSet.rank
    resultMST,  \* kruskalMST's resultMST
    totalCost,  \* kruskalMST's totalCost
    pos,        \* position of the for-of iterator in allEdges (1-based)
    pc,         \* "sort" | "loop" | "done" for kruskalMST, "dsu" for SpecDSU
    last,       \* history: the last find / union call and what it returned
    ref         \* history: reference partition, merged where union said true

vars == <<V, allEdges, input, parent, rank, resultMST, totalCost, pos, pc, last, ref>>

----------------------------------------------------------------------------
(* Bounds *)

MaxV == 3          \* largest vertex count given to kruskalMST
MaxEdges == 2      \* longest edge list given to kruskalMST
MaxN == 4          \* largest DisjointSet driven directly

MaxKey == IF MaxV > MaxN THEN MaxV ELSE MaxN

----------------------------------------------------------------------------
(* JavaScript values.  Reading an array at an index that was never written *)
(* (out of range, negative, or the property "undefined") yields undefined; *)
(* undefined++ is NaN; every ordered comparison with undefined or NaN is   *)
(* false.  Both are encoded as negative integers, which no valid index or  *)
(* rank can be.                                                            *)

undefined == -1
NaN == -2

Keys == (0..MaxKey) \cup {undefined}

IsNumber(a) == a >= 0
Gt(a, b) == IsNumber(a) /\ IsNumber(b) /\ a > b
Lt(a, b) == IsNumber(a) /\ IsNumber(b) /\ a < b
Increment(a) == IF IsNumber(a) THEN a + 1 ELSE NaN

----------------------------------------------------------------------------
(* class DisjointSet *)

\* constructor(n): parent = [0, 1, .., n-1], rank = [0, .., 0]
constructorParent(n) == [k \in Keys |-> IF k >= 0 /\ k < n THEN k ELSE undefined]
constructorRank(n) == [k \in Keys |-> IF k >= 0 /\ k < n THEN 0 ELSE undefined]

\* find without the assignment of line 15: the root is found, no node moves
RECURSIVE find_noCompression(_, _)
find_noCompression(p, i) ==
    IF p[i] = i
    THEN [parent |-> p, ret |-> i]
    ELSE [parent |-> p, ret |-> find_noCompression(p, p[i]).ret]

\* find(i): the recursive walk to the root, assigning the returned root to
\* parent[i] on the way back.  Yields the new parent array and the result.
RECURSIVE find(_, _)
find(p, i) ==
    IF p[i] = i
    THEN [parent |-> p, ret |-> i]
    ELSE LET r == find(p, p[i])
         IN  [parent |-> [r.parent EXCEPT ![i] = r.ret], ret |-> r.ret]

\* union taking y itself for the root of y
union_rootYIsY(p, rk, x, y) ==
    LET fx == find(p, x)
        rootX == fx.ret
        rootY == y
        p2 == fx.parent
    IN  IF rootX # rootY
        THEN IF Gt(rk[rootX], rk[rootY])
             THEN [parent |-> [p2 EXCEPT ![rootY] = rootX], rank |-> rk, ret |-> TRUE]
             ELSE IF Lt(rk[rootX], rk[rootY])
             THEN [parent |-> [p2 EXCEPT ![rootX] = rootY], rank |-> rk, ret |-> TRUE]
             ELSE [parent |-> [p2 EXCEPT ![rootY] = rootX],
                   rank |-> [rk EXCEPT ![rootX] = Increment(rk[rootX])],
                   ret |-> TRUE]
        ELSE [parent |-> p2, rank |-> rk, ret |-> FALSE]

\* union testing x !== y where the code tests rootX !== rootY
union_comparesArguments(p, rk, x, y) ==
    LET fx == find(p, x)
        fy == find(fx.parent, y)
        rootX == fx.ret
        rootY == fy.ret
        p2 == fy.parent
    IN  IF x # y
        THEN IF Gt(rk[rootX], rk[rootY])
             THEN [parent |-> [p2 EXCEPT ![rootY] = rootX], rank |-> rk, ret |-> TRUE]
             ELSE IF Lt(rk[rootX], rk[rootY])
             THEN [parent |-> [p2 EXCEPT ![rootX] = rootY], rank |-> rk, ret |-> TRUE]
             ELSE [parent |-> [p2 EXCEPT ![rootY] = rootX],
                   rank |-> [rk EXCEPT ![rootX] = Increment(rk[rootX])],
                   ret |-> TRUE]
        ELSE [parent |-> p2, rank |-> rk, ret |-> FALSE]

\* union hanging y, not the root of y, under the root of x
union_linksArgument(p, rk, x, y) ==
    LET fx == find(p, x)
        fy == find(fx.parent, y)
        rootX == fx.ret
        rootY == fy.ret
        p2 == fy.parent
    IN  IF rootX # rootY
        THEN IF Gt(rk[rootX], rk[rootY])
             THEN [parent |-> [p2 EXCEPT ![y] = rootX], rank |-> rk, ret |-> TRUE]
             ELSE IF Lt(rk[rootX], rk[rootY])
             THEN [parent |-> [p2 EXCEPT ![x] = rootY], rank |-> rk, ret |-> TRUE]
             ELSE [parent |-> [p2 EXCEPT ![y] = rootX],
                   rank |-> [rk EXCEPT ![rootX] = Increment(rk[rootX])],
                   ret |-> TRUE]
        ELSE [parent |-> p2, rank |-> rk, ret |-> FALSE]

\* union breaking a tie of ranks the other way round
union_tieReversed(p, rk, x, y) ==
    LET fx == find(p, x)
        fy == find(fx.parent, y)
        rootX == fx.ret
        rootY == fy.ret
        p2 == fy.parent
    IN  IF rootX # rootY
        THEN IF Gt(rk[rootX], rk[rootY])
             THEN [parent |-> [p2 EXCEPT ![rootY] = rootX], rank |-> rk, ret |-> TRUE]
             ELSE IF Lt(rk[rootX], rk[rootY])
             THEN [parent |-> [p2 EXCEPT ![rootX] = rootY], rank |-> rk, ret |-> TRUE]
             ELSE [parent |-> [p2 EXCEPT ![rootX] = rootY],
                   rank |-> [rk EXCEPT ![rootY] = Increment(rk[rootY])],
                   ret |-> TRUE]
        ELSE [parent |-> p2, rank |-> rk, ret |-> FALSE]

\* union(x, y): two finds, then union by rank.
union(p, rk, x, y) ==
    LET fx == find(p, x)
        fy == find(fx.parent, y)
        rootX == fx.ret
        rootY == fy.ret
        p2 == fy.parent
    IN  IF rootX # rootY
        THEN IF Gt(rk[rootX], rk[rootY])
             THEN [parent |-> [p2 EXCEPT ![rootY] = rootX], rank |-> rk, ret |-> TRUE]
             ELSE IF Lt(rk[rootX], rk[rootY])
             THEN [parent |-> [p2 EXCEPT ![rootX] = rootY], rank |-> rk, ret |-> TRUE]
             ELSE [parent |-> [p2 EXCEPT ![rootY] = rootX],
                   rank |-> [rk EXCEPT ![rootX] = Increment(rk[rootX])],
                   ret |-> TRUE]
        ELSE [parent |-> p2, rank |-> rk, ret |-> FALSE]

----------------------------------------------------------------------------
(* allEdges.sort((a, b) => a.weight - b.weight): Array.prototype.sort is   *)
(* stable and sorts the array it is called on.                             *)

insertByWeight(s, e) ==
    LET k == Cardinality({j \in 1..Len(s) : s[j].weight - e.weight <= 0})
    IN  SubSeq(s, 1, k) \o <<e>> \o SubSeq(s, k + 1, Len(s))

\* the call to sort left out: the edges stay in input order
sortByWeight_unsorted(s) == s

\* the comparator reversed (b.weight - a.weight): descending order
RECURSIVE sortByWeight_descending(_)
sortByWeight_descending(s) ==
    IF s = <<>> THEN <<>>
    ELSE LET t == sortByWeight_descending(SubSeq(s, 1, Len(s) - 1))
             e == s[Len(s)]
             k == Cardinality({j \in 1..Len(t) : e.weight - t[j].weight <= 0})
         IN  SubSeq(t, 1, k) \o <<e>> \o SubSeq(t, k + 1, Len(t))

RECURSIVE sortByWeight(_)
sortByWeight(s) ==
    IF s = <<>> THEN <<>>
    ELSE insertByWeight(sortByWeight(SubSeq(s, 1, Len(s) - 1)), s[Len(s)])

----------------------------------------------------------------------------
(* History bookkeeping (not program state) *)

\* last: the call (op, x, y), what it returned (root for find, ok for union)
\* and the parent and rank arrays as they were when it was made
NoCall ==
    [op |-> "none", x |-> 0, y |-> 0, root |-> 0, ok |-> FALSE,
     parent |-> constructorParent(0), rank |-> constructorRank(0)]

UnionRecord(x, y, u, p, rk) ==
    [op |-> "union", x |-> x, y |-> y, root |-> 0, ok |-> u.ret, parent |-> p, rank |-> rk]

FindRecord(i, f, p, rk) ==
    [op |-> "find", x |-> i, y |-> i, root |-> f.ret, ok |-> FALSE, parent |-> p, rank |-> rk]

\* the reference partition after the pair (x, y) is linked
Link(rf, x, y) ==
    IF x \in DOMAIN rf /\ y \in DOMAIN rf
    THEN [k \in DOMAIN rf |-> IF rf[k] = rf[y] THEN rf[x] ELSE rf[k]]
    ELSE rf

RefAfter(rf, u, x, y) == IF u.ret THEN Link(rf, x, y) ELSE rf

----------------------------------------------------------------------------
(* function kruskalMST(V, allEdges) *)

\* line 43: sort in place; line 45-46: new DisjointSet(V), totalCost = 0
Sort ==
    /\ pc = "sort"
    /\ allEdges' = sortByWeight(allEdges)
    /\ parent' = constructorParent(V)
    /\ rank' = constructorRank(V)
    /\ totalCost' = 0
    /\ resultMST' = <<>>
    /\ pos' = 1
    /\ pc' = "loop"
    /\ UNCHANGED <<V, input, last, ref>>

\* the loop left one edge early (resultMST.length === V - 2)
Break_oneEdgeEarly ==
    /\ pc = "loop"
    /\ pos <= Len(allEdges)
    /\ Len(resultMST) = V - 2
    /\ pc' = "done"
    /\ UNCHANGED <<V, allEdges, input, parent, rank, resultMST, totalCost, pos, last, ref>>

\* line 49: if (resultMST.length === V - 1) break;
Break ==
    /\ pc = "loop"
    /\ pos <= Len(allEdges)
    /\ Len(resultMST) = V - 1
    /\ pc' = "done"
    /\ UNCHANGED <<V, allEdges, input, parent, rank, resultMST, totalCost, pos, last, ref>>

\* totalCost = weight where the code has totalCost += weight
Accept_costOverwritten ==
    /\ pc = "loop"
    /\ pos <= Len(allEdges)
    /\ Len(resultMST) # V - 1
    /\ LET edge == allEdges[pos]
           u == union(parent, rank, edge.source, edge.destination)
       IN  /\ u.ret
           /\ parent' = u.parent
           /\ rank' = u.rank
           /\ resultMST' = Append(resultMST, edge)
           /\ totalCost' = edge.weight
           /\ last' = UnionRecord(edge.source, edge.destination, u, parent, rank)
           /\ ref' = RefAfter(ref, u, edge.source, edge.destination)
    /\ pos' = pos + 1
    /\ UNCHANGED <<V, allEdges, input, pc>>

\* lines 51-55, union returned true: push the edge, add its weight
Accept ==
    /\ pc = "loop"
    /\ pos <= Len(allEdges)
    /\ Len(resultMST) # V - 1
    /\ LET edge == allEdges[pos]
           u == union(parent, rank, edge.source, edge.destination)
       IN  /\ u.ret
           /\ parent' = u.parent
           /\ rank' = u.rank
           /\ resultMST' = Append(resultMST, edge)
           /\ totalCost' = totalCost + edge.weight
           /\ last' = UnionRecord(edge.source, edge.destination, u, parent, rank)
           /\ ref' = RefAfter(ref, u, edge.source, edge.destination)
    /\ pos' = pos + 1
    /\ UNCHANGED <<V, allEdges, input, pc>>

\* lines 51-52, union returned false: the edge is skipped
Skip ==
    /\ pc = "loop"
    /\ pos <= Len(allEdges)
    /\ Len(resultMST) # V - 1
    /\ LET edge == allEdges[pos]
           u == union(parent, rank, edge.source, edge.destination)
       IN  /\ ~u.ret
           /\ parent' = u.parent
           /\ rank' = u.rank
           /\ last' = UnionRecord(edge.source, edge.destination, u, parent, rank)
    /\ pos' = pos + 1
    /\ UNCHANGED <<V, allEdges, input, resultMST, totalCost, pc, ref>>

\* the for-of loop runs out of edges; line 58 returns
Exhausted ==
    /\ pc = "loop"
    /\ pos > Len(allEdges)
    /\ pc' = "done"
    /\ UNCHANGED <<V, allEdges, input, parent, rank, resultMST, totalCost, pos, last, ref>>

Next == Sort \/ Break \/ Accept \/ Skip \/ Exhausted

\* a negative, a zero and a positive weight
Weights == {-1, 0, 1}

EdgesOver(vs) == [source : vs, destination : vs, weight : Weights]

SeqsUpTo(S, n) == UNION {[1..k -> S] : k \in 0..n}

InitCall(vs) ==
    /\ allEdges \in SeqsUpTo(EdgesOver(vs), MaxEdges)
    /\ input = allEdges
    /\ parent = constructorParent(0)
    /\ rank = constructorRank(0)
    /\ resultMST = <<>>
    /\ totalCost = 0
    /\ pos = 1
    /\ pc = "sort"
    /\ last = NoCall
    /\ ref = [k \in 0..(V - 1) |-> k]

\* the caller (calculateAndDisplayMST, lines 185-208) passes V >= 1 and
\* endpoints in [0, V)
Init ==
    /\ V \in 1..MaxV
    /\ InitCall(0..(V - 1))

Spec == Init /\ [][Next]_vars

\* kruskalMST called directly, endpoints in [0, V]: V is out of range
InitOOB ==
    /\ V \in 1..MaxV
    /\ InitCall(0..V)

SpecOOB == InitOOB /\ [][Next]_vars

----------------------------------------------------------------------------
(* A DisjointSet(n) driven directly: any find(i) and union(x, y) with      *)
(* indices in [0, n), in any order.                                        *)

FindCall(i) ==
    /\ pc = "dsu"
    /\ LET f == find(parent, i)
       IN  /\ parent' = f.parent
           /\ last' = FindRecord(i, f, parent, rank)
    /\ UNCHANGED <<V, allEdges, input, rank, resultMST, totalCost, pos, pc, ref>>

UnionCall(x, y) ==
    /\ pc = "dsu"
    /\ LET u == union(parent, rank, x, y)
       IN  /\ parent' = u.parent
           /\ rank' = u.rank
           /\ last' = UnionRecord(x, y, u, parent, rank)
           /\ ref' = RefAfter(ref, u, x, y)
    /\ UNCHANGED <<V, allEdges, input, resultMST, totalCost, pos, pc>>

NextDSU ==
    \/ \E i \in 0..(V - 1) : FindCall(i)
    \/ \E x, y \in 0..(V - 1) : UnionCall(x, y)

InitDSU ==
    /\ V \in 1..MaxN
    /\ allEdges = <<>>
    /\ input = <<>>
    /\ parent = constructorParent(V)
    /\ rank = constructorRank(V)
    /\ resultMST = <<>>
    /\ totalCost = 0
    /\ pos = 1
    /\ pc = "dsu"
    /\ last = NoCall
    /\ ref = [k \in 0..(V - 1) |-> k]

SpecDSU == InitDSU /\ [][NextDSU]_vars

----------------------------------------------------------------------------
(* Reference notions, defined on the graph and on the parent pointers      *)
(* themselves, independently of find and union.                            *)

Vertices == 0..(V - 1)

InRange(v) == v >= 0 /\ v < V

\* Connectivity by relabelling: every vertex starts with its own label, and
\* each edge es[k] with k in S gives the label of its source to all vertices
\* that carry the label of its destination.  Two vertices are connected by
\* the edges of S iff they end with the same label.
RECURSIVE LabelsUpTo(_, _, _)
LabelsUpTo(es, S, k) ==
    IF k = 0 THEN [v \in Vertices |-> v]
    ELSE LET l == LabelsUpTo(es, S, k - 1)
         IN  IF k \in S
             THEN [v \in Vertices |->
                      IF l[v] = l[es[k].destination] THEN l[es[k].source] ELSE l[v]]
             ELSE l

Labels(es, S) == LabelsUpTo(es, S, Len(es))

Connected(es, S, a, b) == LET l == Labels(es, S) IN l[a] = l[b]

NumComponents(es, S) == LET l == Labels(es, S) IN Cardinality({l[v] : v \in Vertices})

\* an edge set is acyclic iff every edge reduces the number of components
IsForest(es, S) == Cardinality(S) = V - NumComponents(es, S)

\* acyclic, and connecting every pair of vertices that the whole graph connects
IsSpanningForest(es, S) ==
    /\ IsForest(es, S)
    /\ LET l == Labels(es, S)
           g == Labels(es, DOMAIN es)
       IN  \A a, b \in Vertices : g[a] = g[b] => l[a] = l[b]

RECURSIVE WeightOf(_, _)
WeightOf(es, S) ==
    IF S = {} THEN 0
    ELSE LET k == CHOOSE j \in S : TRUE
         IN  es[k].weight + WeightOf(es, S \ {k})

\* brute force: the least weight of a spanning forest of the graph es
MinForestWeight(es) ==
    LET Ws == {WeightOf(es, S) : S \in {T \in SUBSET (DOMAIN es) : IsSpanningForest(es, T)}}
    IN  CHOOSE w \in Ws : \A w2 \in Ws : w <= w2

IsConnectedGraph(es) == NumComponents(es, DOMAIN es) = 1

RECURSIVE SumWeights(_)
SumWeights(s) == IF s = <<>> THEN 0 ELSE s[1].weight + SumWeights(Tail(s))

\* the parent pointer followed k times
RECURSIVE Up(_, _, _)
Up(p, i, k) == IF k = 0 THEN i ELSE Up(p, p[i], k - 1)

\* every walk along parent pointers reaches a self-loop within V steps
Acyclic(p) == \A i \in Vertices : LET r == Up(p, i, V) IN InRange(r) /\ p[r] = r

RootOf(p, i) == Up(p, i, V)

\* the nodes on the parent path from i to its root, both included
PathNodes(p, i) == {Up(p, i, k) : k \in 0..V}

Permutations(n) == {f \in [1..n -> 1..n] : \A j, k \in 1..n : f[j] = f[k] => j = k}

----------------------------------------------------------------------------
(* Claims about kruskalMST, checked under Spec *)

\* C1: the cost kruskalMST returns is the minimum total weight over all
\* spanning forests of the input graph, as a brute-force search finds it.
C1_CostIsMinimum ==
    pc = "done" => totalCost = MinForestWeight(input)

\* two parallel edges, the heavier one first in the input: the lighter one
\* is the one selected
C1_Witness ==
    /\ pc = "done"
    /\ Len(input) = 2
    /\ input[1].source # input[1].destination
    /\ {input[1].source, input[1].destination} = {input[2].source, input[2].destination}
    /\ input[1].weight > input[2].weight
    /\ resultMST = <<input[2]>>
    /\ totalCost = input[2].weight

\* C2: kruskalMST returns exactly V - 1 edges when the graph is connected and
\* fewer when it is not, so the caller's test mst.length < V - 1 && V > 1
\* is true exactly for disconnected graphs.
C2_EdgeCountTellsConnected ==
    pc = "done" =>
        /\ IsConnectedGraph(input) => Len(resultMST) = V - 1
        /\ ~IsConnectedGraph(input) => Len(resultMST) < V - 1
        /\ (Len(resultMST) < V - 1 /\ V > 1) <=> ~IsConnectedGraph(input)

\* a disconnected graph with a selected edge and a rejected one
C2_Witness ==
    /\ pc = "done"
    /\ V = 3
    /\ ~IsConnectedGraph(input)
    /\ Len(input) >= 2
    /\ Len(resultMST) = 1

\* C3: every selected edge joined two vertices that the edges selected before
\* it did not connect; so the selection is acyclic at every moment, holds no
\* self-loop and at most one edge of any group of parallel edges.
C3_SelectedEdgesAcyclic ==
    /\ \A k \in 1..Len(resultMST) :
          ~Connected(resultMST, 1..(k - 1), resultMST[k].source, resultMST[k].destination)
    /\ IsForest(resultMST, DOMAIN resultMST)
    /\ \A k \in 1..Len(resultMST) : resultMST[k].source # resultMST[k].destination
    /\ \A j, k \in 1..Len(resultMST) :
          {resultMST[j].source, resultMST[j].destination}
              = {resultMST[k].source, resultMST[k].destination} => j = k

\* an edge was selected and its reverse, offered next, was rejected
C3_Witness ==
    /\ pc = "loop"
    /\ V = 3
    /\ pos = 3
    /\ Len(resultMST) = 1
    /\ allEdges[1].source # allEdges[1].destination
    /\ allEdges[2].source = allEdges[1].destination
    /\ allEdges[2].destination = allEdges[1].source

\* C4: after every loop iteration and at return, the running cost is the sum
\* of the weights of the edges in the result (0 for an empty result).
C4_CostIsSumOfSelected ==
    pc \in {"loop", "done"} => totalCost = SumWeights(resultMST)

\* two edges selected, of different non-zero weights
C4_Witness ==
    /\ Len(resultMST) = 2
    /\ resultMST[1].weight = -1
    /\ resultMST[2].weight = 1
    /\ pc = "loop"

----------------------------------------------------------------------------
(* Claim about out-of-range indices, checked under SpecOOB *)

\* C6: an edge with an endpoint outside [0, V) ends the computation in an
\* error: no result ever holds such an edge, and the call that met it leaves
\* parent and rank as they were.
C6_OutOfRangeRejected ==
    /\ \A k \in 1..Len(resultMST) :
          InRange(resultMST[k].source) /\ InRange(resultMST[k].destination)
    /\ (last.op = "union" /\ ~(InRange(last.x) /\ InRange(last.y))) =>
          parent = last.parent /\ rank = last.rank

----------------------------------------------------------------------------
(* Claims about DisjointSet, checked under SpecDSU *)

LastRootX == RootOf(last.parent, last.x)
LastRootY == RootOf(last.parent, last.y)

\* C7 (as stated): union(x, y) on two members of one set returns false and
\* leaves parent and rank exactly as they were.
C7_NoOpUnionKeepsArrays ==
    (last.op = "union" /\ LastRootX = LastRootY) =>
        /\ ~last.ok
        /\ parent = last.parent
        /\ rank = last.rank

\* C7 (amended): union(x, y) on two members of one set returns false and
\* leaves the rank array and every element's representative as they were; in
\* the parent array only the nodes on the paths from x and from y to their
\* root change, and they now point directly at that root.
C7_NoOpUnionOnlyCompresses ==
    (last.op = "union" /\ LastRootX = LastRootY) =>
        /\ ~last.ok
        /\ rank = last.rank
        /\ \A k \in Vertices : RootOf(parent, k) = RootOf(last.parent, k)
        /\ \A k \in Keys :
              parent[k] = IF k \in PathNodes(last.parent, last.x)
                                   \cup PathNodes(last.parent, last.y)
                          THEN LastRootX
                          ELSE last.parent[k]

\* a union of two distinct members of one set that compressed a path
C7_Witness ==
    /\ last.op = "union"
    /\ last.x # last.y
    /\ LastRootX = LastRootY
    /\ parent # last.parent

\* C8: the parent pointers have no cycle but the self-loops at roots, and
\* find(a) = find(b) exactly when a and b are linked by the pairs on which
\* union returned true.
C8_ForestMatchesPartition ==
    pc = "dsu" =>
        /\ Acyclic(parent)
        /\ \A a, b \in Vertices :
              (find(parent, a).ret = find(parent, b).ret) <=> (ref[a] = ref[b])

\* a tree of depth two next to which the sets are all merged into one
C8_Witness ==
    /\ pc = "dsu"
    /\ \E a \in Vertices : parent[a] # a /\ parent[parent[a]] # parent[a]
    /\ \A a, b \in Vertices : ref[a] = ref[b]

\* C9: a union of two different sets returns true and links by rank: the
\* root of lower rank goes under the other and no rank changes; on equal
\* ranks the root of y goes under the root of x, whose rank grows by one.
C9_UnionByRank ==
    (last.op = "union" /\ LastRootX # LastRootY) =>
        /\ last.ok
        /\ last.rank[LastRootX] > last.rank[LastRootY] =>
              parent[LastRootY] = LastRootX /\ rank = last.rank
        /\ last.rank[LastRootX] < last.rank[LastRootY] =>
              parent[LastRootX] = LastRootY /\ rank = last.rank
        /\ last.rank[LastRootX] = last.rank[LastRootY] =>
              /\ parent[LastRootY] = LastRootX
              /\ parent[LastRootX] = LastRootX
              /\ rank = [last.rank EXCEPT ![LastRootX] = last.rank[LastRootX] + 1]

\* a merge in which the root of x had the lower rank
C9_Witness ==
    /\ last.op = "union"
    /\ LastRootX # LastRootY
    /\ last.rank[LastRootX] < last.rank[LastRootY]

\* C10: find(i) returns the root of i's tree; afterwards every node on the
\* path from i to the root has the root as its parent, and every other
\* parent, every rank and every representative is as before.
C10_FindCompressesPath ==
    last.op = "find" =>
        /\ last.root = LastRootX
        /\ \A k \in Keys :
              parent[k] = IF k \in PathNodes(last.parent, last.x)
                          THEN LastRootX
                          ELSE last.parent[k]
        /\ rank = last.rank
        /\ \A k \in Vertices : RootOf(parent, k) = RootOf(last.parent, k)

\* a find that repointed a node
C10_Witness ==
    /\ last.op = "find"
    /\ parent # last.parent
    /\ last.parent[last.x] # last.root

====
